---- MODULE Spec2Model ----
(***************************************************************************)
(* A model of newsmap's src/main.py: the five-stage pipeline of main()     *)
(* (headline feed, text model, image model, vision model, page builder),   *)
(* the fixed-delay rate limiter and the JSON fence stripper.               *)
(*                                                                         *)
(* Python values are modelled as follows.  A dict is a TLA+ function whose *)
(* DOMAIN is its key set, so d['k'] raises KeyError exactly when           *)
(* "k" \notin DOMAIN d.  A value whose Python type the code does not       *)
(* control (a parsed JSON document) is a tagged record [t |-> type, ...].  *)
(* A text is a sequence of one-character strings.                          *)
(***************************************************************************)
EXTENDS Integers, Sequences, FiniteSets, TLC

VARIABLES
    \* ---- main(): the position in the loop body and its locals
    pc,             \* the stage main() is about to run
    sec,            \* index into SECTIONS of the section being processed
    story_count,    \* SECTIONS[i]['story_count'], per section
    focus,          \* the service whose every response this run explores
    stories,        \* main's stories
    concept,        \* main's concept
    image,          \* main's image
    locations,      \* main's locations
    response,       \* the response of the latest remote call
    html,           \* the page generate_html has built and written
    raised,         \* the exception that escaped main(), if any
    \* ---- what outlives a section
    run,            \* which invocation of the program this is, from 1
    files,          \* the files written so far, by name
    calls,          \* per section, the remote calls made, in order
    call_started,   \* the latest remote call: service, section, start time, cooldown
    now,            \* time.time()
    last_google_api_call_time,
    \* ---- clean_json_text, exercised on its own (SpecClean)
    cj_plain,       \* a JSON document with no fence around it
    cj_fenced,      \* the same document wrapped in a fenced block
    cj_out          \* the two results of clean_json_text, once applied

locals == <<stories, concept, image, locations, response, html>>
main_vars == <<pc, run, sec, story_count, focus, locals, raised, files, calls,
               call_started, now, last_google_api_call_time>>
cj_vars == <<cj_plain, cj_fenced, cj_out>>
vars == <<main_vars, cj_vars>>

\* Python's None, and a local that has not been assigned yet
None == [t |-> "None"]
Unset == [t |-> "unset"]

\* Tagged Python values
Dict(d) == [t |-> "dict", v |-> d]
List(l) == [t |-> "list", v |-> l]
Float(x) == [t |-> "float", v |-> x]
EmptyDict == <<>>

\* dict.get(k, default)
Get(d, k, default) == IF k \in DOMAIN d THEN d[k] ELSE default

\* bool(v): None, an empty dict and an empty list are falsy
Truthy(v) ==
    CASE v.t = "None" -> FALSE
      [] v.t = "dict" -> DOMAIN v.v # {}
      [] v.t = "list" -> Len(v.v) > 0
      [] OTHER -> TRUE

-----------------------------------------------------------------------------
(* Bounds                                                                  *)

\* the largest story_count a section is configured with
MaxCount == 2
\* the longest remote call, in seconds
MaxDuration == 3

\* main.py line 30
API_CALL_DELAY_SECONDS == 2

-----------------------------------------------------------------------------
(* Texts                                                                   *)

WS == {" ", "\n"}
\* The backquote character (U+0060).  A TLA+ string cannot hold it, so the
\* model writes it as a tilde; no other character of the model is a tilde.
TICK == "~"
\* the fence markers of lines 53-57
FENCE == <<TICK, TICK, TICK>>
FENCE_JSON == <<TICK, TICK, TICK, "j", "s", "o", "n">>

\* str.startswith
StartsWith(s, p) ==
    /\ Len(p) <= Len(s)
    /\ SubSeq(s, 1, Len(p)) = p

\* str.endswith
EndsWith(s, p) ==
    /\ Len(p) <= Len(s)
    /\ SubSeq(s, Len(s) - Len(p) + 1, Len(s)) = p

\* str.strip: drops the leading and the trailing whitespace
RECURSIVE LStrip(_)
LStrip(s) ==
    IF s # <<>> /\ Head(s) \in WS THEN LStrip(Tail(s)) ELSE s

RECURSIVE RStrip(_)
RStrip(s) ==
    IF s # <<>> /\ s[Len(s)] \in WS THEN RStrip(SubSeq(s, 1, Len(s) - 1)) ELSE s

Strip(s) == RStrip(LStrip(s))

\* str.split(sep): the parts between the non-overlapping occurrences of sep,
\* found left to right
RECURSIVE SplitFrom(_, _, _)
SplitFrom(s, sep, part) ==
    IF s = <<>> THEN <<part>>
    ELSE IF StartsWith(s, sep)
         THEN <<part>> \o SplitFrom(SubSeq(s, Len(sep) + 1, Len(s)), sep, <<>>)
         ELSE SplitFrom(Tail(s), sep, Append(part, Head(s)))

Split(s, sep) == SplitFrom(s, sep, <<>>)

\* main.py clean_json_text, lines 51-59
CleanAfterOpen(text) ==
    IF EndsWith(text, FENCE) THEN Split(text, FENCE)[1] ELSE text

CleanOpen(text) ==
    IF StartsWith(text, FENCE_JSON) THEN Split(text, FENCE_JSON)[2]
    ELSE IF StartsWith(text, FENCE) THEN Split(text, FENCE)[2]
    ELSE text

clean_json_text(text) == Strip(CleanAfterOpen(CleanOpen(Strip(text))))

-----------------------------------------------------------------------------
(* Configuration                                                           *)

\* main.py lines 33-41.  The repository configures the first section only;
\* the second one is here so that the loop of main() has a next section to
\* move to.  story_count is a variable, drawn from 0..MaxCount per section.
SECTIONS ==
    << [name |-> "Front Page", filename |-> "index.html", category |-> None],
       [name |-> "Business", filename |-> "business.html",
        category |-> [t |-> "str", v |-> "business"]] >>

\* line 402: section['filename'].replace('.html', '.png')
ImageFilename(filename) ==
    CASE filename = "index.html" -> "index.png"
      [] filename = "business.html" -> "business.png"

\* line 403: images_dir / image_filename
ImagePath(image_filename) == <<"images", image_filename>>
\* line 377: open(section_config['filename'], 'w')
PagePath(filename) == <<".", filename>>

Paths ==
    {PagePath(SECTIONS[i].filename) : i \in DOMAIN SECTIONS}
        \cup {ImagePath(ImageFilename(SECTIONS[i].filename)) : i \in DOMAIN SECTIONS}

\* every sequence over S of length at most n
SeqsUpTo(S, n) == UNION {[1..k -> S] : k \in 0..n}

\* The environment of a run is explored one service at a time: the service
\* in focus may answer in every way the model knows, every other service
\* either fails or answers in the documented shape, and only under the focus
\* "clock" do the remote calls take time.
Focuses == {"feed", "text", "image", "vision", "clock"}

Durations == IF focus = "clock" THEN 0..MaxDuration ELSE {0}

-----------------------------------------------------------------------------
(* The headline feed and fetch_stories                                     *)

\* An article of the feed: with every field, with none (every default of
\* lines 77-80 applies), with an empty description, and with "source": null,
\* on which article.get('source', {}).get raises AttributeError.
FullArticle ==
    [title |-> "Headline", source |-> Dict([name |-> "Wire"]),
     url |-> "http://story", description |-> "Body"]
BareArticle == EmptyDict
NoDescriptionArticle ==
    [title |-> "Headline", source |-> Dict(EmptyDict), description |-> ""]
NullSourceArticle == [title |-> "Headline", source |-> None]

Articles == {FullArticle, BareArticle, NoDescriptionArticle, NullSourceArticle}

\* the feed has a page of 15 for the 10 stories asked for (lines 38, 67):
\* it can return more articles than the section's story_count
MaxArticles == MaxCount + 1

\* What newsapi.get_top_headlines can do: raise, or return a dict that has
\* no 'articles', a null 'articles', or a list of articles.
FeedResponses ==
    {[service |-> "feed", t |-> "raise"]}
        \cup {[service |-> "feed", t |-> "ok", v |-> top_headlines] :
                top_headlines \in
                    {EmptyDict, [articles |-> None]}
                        \cup {[articles |-> List(as)] :
                                as \in SeqsUpTo(Articles, MaxArticles)}}

FeedAnswers ==
    IF focus = "feed" THEN FeedResponses
    ELSE {[service |-> "feed", t |-> "raise"],
          [service |-> "feed", t |-> "ok",
           v |-> [articles |-> List([i \in 1..MaxArticles |-> FullArticle])]]}

\* lines 75-81: the record built from the article at index i
\* (x or d is d when x is the empty string)
ArticleRaises(article) == Get(article, "source", Dict(EmptyDict)).t # "dict"

\* line 76
StoryId(i) == i + 1

StoryOf(i, article) ==
    [id |-> StoryId(i),
     title |-> Get(article, "title", "Unknown Title"),
     source |-> Get(Get(article, "source", Dict(EmptyDict)).v, "name", "Unknown Source"),
     url |-> Get(article, "url", "#"),
     description |->
        IF Get(article, "description", "") = ""
        THEN "No description available."
        ELSE article.description]

\* lines 73-81: the loop over enumerate(raw_articles); an exception leaves
\* the records appended so far in stories (line 82 catches it)
RECURSIVE ConvertLoop(_, _, _, _)
ConvertLoop(raw_articles, i, count, acc) ==
    IF i >= Len(raw_articles) THEN acc
    ELSE IF i >= count THEN acc
    ELSE IF ArticleRaises(raw_articles[i + 1]) THEN acc
    ELSE ConvertLoop(raw_articles, i + 1, count,
                     Append(acc, StoryOf(i, raw_articles[i + 1])))

\* lines 65-83: the try block
TryFetch(feed, count) ==
    IF feed.t = "raise" THEN <<>>
    ELSE LET raw_articles == Get(feed.v, "articles", List(<<>>))
         IN  IF raw_articles.t # "list" THEN <<>>
             ELSE ConvertLoop(raw_articles.v, 0, count, <<>>)

\* lines 87-93
PlaceholderStory(next_id) ==
    [id |-> next_id,
     title |-> "More Content Coming Soon",
     source |-> "System",
     url |-> "#",
     description |-> "Waiting for more headlines to populate."]

\* a faulty variant of the loop below, which pads nothing
PadLoopNoPadding(acc, count) == acc

\* lines 85-93
RECURSIVE PadLoop(_, _)
PadLoop(acc, count) ==
    IF Len(acc) < count
    THEN PadLoop(Append(acc, PlaceholderStory(Len(acc) + 1)), count)
    ELSE acc

\* lines 61-94; feed is what the call of line 67 or 69 does
fetch_stories(category, count, feed) == PadLoop(TryFetch(feed, count), count)

-----------------------------------------------------------------------------
(* The rate limiter                                                        *)

\* lines 45-48: the time at which wait_for_api_cooldown stops sleeping.
\* time.sleep(d) is taken to last exactly d; a longer sleep only widens the
\* gap between two calls.
\* a faulty variant of CooldownEnd, which never sleeps
CooldownEndNoSleep(t, last) == t

CooldownEnd(t, last) ==
    IF last.t # "None" /\ t - last.v < API_CALL_DELAY_SECONDS
    THEN t + (API_CALL_DELAY_SECONDS - (t - last.v))
    ELSE t

-----------------------------------------------------------------------------
(* The text model and generate_memory_palace_concept                       *)

\* the ids a model response may mention: every headline id and one more
Ids == 1..(MaxCount + 1)

Rationale(i) == "why" \o ToString(i)

\* a mnemonic element of the documented shape (lines 124-129)
Element(i) ==
    [id |-> i, visual_cue |-> "cue", assigned_zone |-> "Foreground Left",
     mnemonic_explanation |-> Rationale(i)]

\* the element dict without key k
Without(d, k) == [x \in DOMAIN d \ {k} |-> d[x]]

\* the elements for the ids of S, in increasing order
RECURSIVE ElementsOf(_, _)
ElementsOf(S, i) ==
    IF i > MaxCount + 1 THEN <<>>
    ELSE (IF i \in S THEN <<Element(i)>> ELSE <<>>) \o ElementsOf(S, i + 1)

WellFormedElementLists == {ElementsOf(S, 1) : S \in SUBSET Ids}

\* An element list the text model may return: of the documented shape, or
\* with one element that lacks a key (first or last in the list), or with a
\* second element for id 1.
ElementLists ==
    WellFormedElementLists
        \cup {Append(l, Without(Element(1), k)) :
                l \in WellFormedElementLists,
                k \in {"id", "visual_cue", "assigned_zone", "mnemonic_explanation"}}
        \cup {<<Without(Element(1), k)>> \o l :
                l \in WellFormedElementLists, k \in {"id", "mnemonic_explanation"}}
        \cup {Append(l, [Element(1) EXCEPT !.mnemonic_explanation = "again"]) :
                l \in WellFormedElementLists}

\* The JSON documents the text model may return: null, an empty object, an
\* array, or an object with or without each of its two keys, story_elements
\* being a list or null.
ConceptDocuments ==
    {None, Dict(EmptyDict), List(<<>>), List(<<Dict(EmptyDict)>>)}
        \cup {Dict([setting_description |-> "A park"])}
        \cup {Dict([setting_description |-> "A park", story_elements |-> None])}
        \cup {Dict([story_elements |-> List(l)]) : l \in WellFormedElementLists}
        \cup {Dict([setting_description |-> "A park", story_elements |-> List(l)]) :
                l \in ElementLists}

\* What the call of line 136 can do: raise, return text that json.loads
\* rejects, or return text that cleans and parses to a document.
TextResponses ==
    {[service |-> "text", t |-> "raise"], [service |-> "text", t |-> "badjson"]}
        \cup {[service |-> "text", t |-> "json", v |-> data] :
                data \in ConceptDocuments}

TextAnswers ==
    IF focus = "text" THEN TextResponses
    ELSE {[service |-> "text", t |-> "raise"],
          [service |-> "text", t |-> "json",
           v |-> Dict([setting_description |-> "A park",
                       story_elements |-> List(ElementsOf(1..MaxCount, 1))])]}

\* lines 135-145, given the response
generate_memory_palace_concept(resp) ==
    IF resp.t = "json" THEN resp.v ELSE None

\* the documented shape of a concept (lines 121-132)
IsElement(e) == {"id", "visual_cue", "assigned_zone"} \subseteq DOMAIN e

IsConcept(c) ==
    /\ c.t = "dict"
    /\ {"setting_description", "story_elements"} \subseteq DOMAIN c.v
    /\ c.v.story_elements.t = "list"
    /\ \A j \in DOMAIN c.v.story_elements.v : IsElement(c.v.story_elements.v[j])

-----------------------------------------------------------------------------
(* The join of main(), lines 393-397                                       *)

Raise(where, exc) == [t |-> "raise", in |-> where, exc |-> exc]
Ok(v) == [t |-> "ok", v |-> v]

\* concept['story_elements'] and the iteration over it: what it raises, or
\* the list iterated
ElementsIter(c, where) ==
    IF c.t # "dict" THEN Raise(where, "TypeError")
    ELSE IF "story_elements" \notin DOMAIN c.v THEN Raise(where, "KeyError")
    ELSE IF c.v.story_elements.t # "list" THEN Raise(where, "TypeError")
    ELSE Ok(c.v.story_elements.v)

\* lines 394-397 for one story: the scan stops at the first element whose id
\* is the story's; an element without 'id' raises KeyError when reached
RECURSIVE JoinStory(_, _, _)
JoinStory(story, elems, j) ==
    IF j > Len(elems) THEN Ok(story)
    ELSE IF "id" \notin DOMAIN elems[j] THEN Raise("join", "KeyError")
    ELSE IF elems[j].id = story.id
         THEN Ok(("mnemonic_explanation" :>
                    Get(elems[j], "mnemonic_explanation", "")) @@ story)
    ELSE JoinStory(story, elems, j + 1)

\* lines 393-397: the stories with their rationales, or the exception
RECURSIVE JoinLoop(_, _, _)
JoinLoop(ss, c, i) ==
    IF i > Len(ss) THEN Ok(ss)
    ELSE LET it == ElementsIter(c, "join")
         IN  IF it.t = "raise" THEN it
             ELSE LET r == JoinStory(ss[i], it.v, 1)
                  IN  IF r.t = "raise" THEN r
                      ELSE JoinLoop([ss EXCEPT ![i] = r.v], c, i + 1)

-----------------------------------------------------------------------------
(* The image model and generate_image                                      *)

\* lines 151-160: building the prompt reads scene_concept['setting_description']
\* and every element's 'assigned_zone' and 'visual_cue', outside the try
PromptOf(scene_concept) ==
    IF "setting_description" \notin DOMAIN scene_concept.v
    THEN Raise("generate_image", "KeyError")
    ELSE LET it == ElementsIter(scene_concept, "generate_image")
         IN  IF it.t = "raise" THEN it
             ELSE IF \E j \in DOMAIN it.v :
                        ~ ({"assigned_zone", "visual_cue"} \subseteq DOMAIN it.v[j])
                  THEN Raise("generate_image", "KeyError")
                  ELSE Ok("prompt")

\* a part of the response: text only, an image, or bytes PIL cannot open
Parts == {"text", "png", "corrupt"}

\* What the call of line 163 can do: raise, return no candidate, or return
\* a candidate with parts.
ImageResponses ==
    {[service |-> "image", t |-> "raise"],
     [service |-> "image", t |-> "nocandidates"]}
        \cup {[service |-> "image", t |-> "ok", parts |-> ps] :
                ps \in SeqsUpTo(Parts, 2)}

ImageAnswers ==
    IF focus = "image" THEN ImageResponses
    ELSE {[service |-> "image", t |-> "raise"],
          [service |-> "image", t |-> "ok", parts |-> <<"png">>]}

\* lines 168-171: the first part with inline data is opened; Image.open
\* raising is caught at line 172
RECURSIVE FirstInline(_, _)
FirstInline(parts, j) ==
    IF j > Len(parts) THEN None
    ELSE IF parts[j] = "png" THEN [t |-> "image"]
    ELSE IF parts[j] = "corrupt" THEN None
    ELSE FirstInline(parts, j + 1)

\* lines 162-174, given the response
generate_image(resp) ==
    IF resp.t = "ok" THEN FirstInline(resp.parts, 1) ELSE None

-----------------------------------------------------------------------------
(* The vision model and find_coordinates                                   *)

\* lines 180-181: building the item list reads every element's 'id',
\* 'visual_cue' and 'assigned_zone', outside the try
ItemsToFind(scene_concept) ==
    LET it == ElementsIter(scene_concept, "find_coordinates")
    IN  IF it.t = "raise" THEN it
        ELSE IF \E j \in DOMAIN it.v : ~ IsElement(it.v[j])
             THEN Raise("find_coordinates", "KeyError")
             ELSE Ok("items")

\* a coordinate of the documented shape (line 195), in percent
Location(i) == [id |-> i, x |-> 10 * i, y |-> 10 * i + 5]

RECURSIVE LocationsOf(_, _)
LocationsOf(S, i) ==
    IF i > MaxCount + 1 THEN <<>>
    ELSE (IF i \in S THEN <<Location(i)>> ELSE <<>>) \o LocationsOf(S, i + 1)

WellFormedLocationLists == {LocationsOf(S, 1) : S \in SUBSET Ids}

\* A 'locations' list the vision model may return: of the documented shape,
\* or with one entry that lacks a key, or with a second entry for id 1.
LocationLists ==
    WellFormedLocationLists
        \cup {Append(l, Without(Location(1), k)) :
                l \in WellFormedLocationLists, k \in {"id", "x", "y"}}
        \cup {<<Without(Location(1), "id")>> \o l : l \in WellFormedLocationLists}
        \cup {Append(l, [id |-> 1, x |-> 99, y |-> 99]) :
                l \in WellFormedLocationLists}

\* The JSON documents the vision model may return: null, an array, an
\* object without 'locations', or one whose 'locations' is null or a list.
VisionDocuments ==
    {None, List(<<>>), Dict(EmptyDict), Dict([locations |-> None])}
        \cup {Dict([locations |-> List(l)]) : l \in LocationLists}

\* What the call of line 199 can do.
VisionResponses ==
    {[service |-> "vision", t |-> "raise"], [service |-> "vision", t |-> "badjson"]}
        \cup {[service |-> "vision", t |-> "json", v |-> data] :
                data \in VisionDocuments}

VisionAnswers ==
    IF focus = "vision" THEN VisionResponses
    ELSE {[service |-> "vision", t |-> "raise"],
          [service |-> "vision", t |-> "json",
           v |-> Dict([locations |-> List(LocationsOf(1..MaxCount, 1))])]}

\* lines 198-208, given the response: data['locations'] as it is, and the
\* empty list when the call, the parse or the lookup raises
find_coordinates(resp) ==
    IF resp.t = "json" /\ resp.v.t = "dict" /\ "locations" \in DOMAIN resp.v.v
    THEN resp.v.v.locations
    ELSE List(<<>>)

\* a list of {id, x, y} objects
IsLocationList(l) ==
    /\ l.t = "list"
    /\ \A j \in DOMAIN l.v : {"id", "x", "y"} \subseteq DOMAIN l.v[j]

-----------------------------------------------------------------------------
(* generate_html                                                           *)

\* line 329, the default of next(...)
DefaultLocation == [x |-> 50, y |-> 50]

\* line 329: next(l for l in locations if l['id'] == story['id'], default)
RECURSIVE NextLocation(_, _, _)
NextLocation(locs, id, j) ==
    IF j > Len(locs) THEN Ok(DefaultLocation)
    ELSE IF "id" \notin DOMAIN locs[j] THEN Raise("generate_html", "KeyError")
    ELSE IF locs[j].id = id THEN Ok(locs[j])
    ELSE NextLocation(locs, id, j + 1)

\* lines 329-334: the marker of one story, or the exception
MarkerOf(story, locs) ==
    IF locs.t # "list" THEN Raise("generate_html", "TypeError")
    ELSE LET loc == NextLocation(locs.v, story.id, 1)
         IN  IF loc.t = "raise" THEN loc
             ELSE IF ~ ({"x", "y"} \subseteq DOMAIN loc.v)
                  THEN Raise("generate_html", "KeyError")
                  ELSE Ok([id |-> story.id, top |-> loc.v.y, left |-> loc.v.x])

\* a faulty variant of the loop below, which emits no marker for a headline
\* left at the default position
RECURSIVE MarkersLoopSkipping(_, _, _, _)
MarkersLoopSkipping(ss, locs, i, acc) ==
    IF i > Len(ss) THEN Ok(acc)
    ELSE LET m == MarkerOf(ss[i], locs)
         IN  IF m.t = "raise" THEN m
             ELSE IF m.v.top = DefaultLocation.y /\ m.v.left = DefaultLocation.x
                  THEN MarkersLoopSkipping(ss, locs, i + 1, acc)
                  ELSE MarkersLoopSkipping(ss, locs, i + 1, Append(acc, m.v))

\* lines 328-334
RECURSIVE MarkersLoop(_, _, _, _)
MarkersLoop(ss, locs, i, acc) ==
    IF i > Len(ss) THEN Ok(acc)
    ELSE LET m == MarkerOf(ss[i], locs)
         IN  IF m.t = "raise" THEN m
             ELSE MarkersLoop(ss, locs, i + 1, Append(acc, m.v))

\* line 340
PlaceholderRationale == "Visual mnemonic for this story."

\* lines 339-352: the detail panel of one story (its description, cut to 140
\* characters, is left out of the model)
CardOf(story) ==
    [id |-> story.id,
     source |-> story.source,
     title |-> story.title,
     hook |-> Get(story, "mnemonic_explanation", PlaceholderRationale),
     url |-> story.url]

\* lines 210-379: the page written, or the exception raised before the file
\* is opened at line 377
generate_html(section_config, ss, locs, image_filename) ==
    LET ms == MarkersLoop(ss, locs, 1, <<>>)
    IN  IF ms.t = "raise" THEN ms
        ELSE Ok([title |-> section_config.name,
                 image |-> image_filename,
                 markers |-> ms.v,
                 cards |-> [i \in DOMAIN ss |-> CardOf(ss[i])]])

-----------------------------------------------------------------------------
(* main(): one action per stage of the loop body, lines 384-407            *)

section == SECTIONS[sec]

\* the remote call of a stage: logged for its section, with its start time,
\* whether wait_for_api_cooldown ran before it in the calling function, and
\* how long that cooldown slept
RemoteCall(service, at, cooled, duration) ==
    /\ calls' = [calls EXCEPT ![sec] = Append(@, service)]
    /\ call_started' = [service |-> service, sec |-> sec, at |-> at,
                        cooled |-> cooled, slept |-> at - now]
    /\ now' = at + duration

\* where main() goes after line 388, 391 and 400
AfterFetch(ss) == IF Truthy(ss) THEN "concept" ELSE "next"
\* a faulty variant of AfterConcept, which calls the text model again
AfterConceptRetry(c) == IF Truthy(c) THEN "join" ELSE "concept"
AfterConcept(c) == IF Truthy(c) THEN "join" ELSE "next"
AfterImage(img) == IF Truthy(img) THEN "save" ELSE "next"

\* an exception leaves main(): nothing catches it (lines 381-412)
Escapes(exc) ==
    /\ pc' = "raised"
    /\ raised' = exc

\* line 387: fetch_stories makes the feed call with no cooldown before it
FetchStories ==
    /\ pc = "fetch"
    /\ \E feed \in FeedAnswers, d \in Durations :
        /\ RemoteCall("feed", now, FALSE, d)
        /\ response' = feed
        /\ stories' = List(fetch_stories(section.category, story_count[sec], feed))
    /\ pc' = AfterFetch(stories')
    /\ UNCHANGED <<run, sec, story_count, focus, concept, image, locations, html, raised,
                   files, last_google_api_call_time, cj_vars>>

\* line 390: generate_memory_palace_concept
GenerateConcept ==
    /\ pc = "concept"
    /\ LET start == CooldownEnd(now, last_google_api_call_time)
       IN  /\ last_google_api_call_time' = Float(start)
           /\ \E resp \in TextAnswers, d \in Durations :
                /\ RemoteCall("text", start, TRUE, d)
                /\ response' = resp
                /\ concept' = generate_memory_palace_concept(resp)
    /\ pc' = AfterConcept(concept')
    /\ UNCHANGED <<run, sec, story_count, focus, stories, image, locations, html, raised,
                   files, cj_vars>>

\* lines 393-397: the rationales are attached to the stories in place
Join ==
    /\ pc = "join"
    /\ LET r == JoinLoop(stories.v, concept, 1)
       IN  IF r.t = "raise"
           THEN Escapes(r) /\ UNCHANGED stories
           ELSE pc' = "image" /\ stories' = List(r.v) /\ UNCHANGED raised
    /\ UNCHANGED <<run, sec, story_count, focus, concept, image, locations, response, html,
                   files, calls, call_started, now, last_google_api_call_time,
                   cj_vars>>

\* line 399: generate_image.  The cooldown comes first (line 148), then the
\* prompt (lines 151-160), then the call.
GenerateImage ==
    /\ pc = "image"
    /\ LET start == CooldownEnd(now, last_google_api_call_time)
           prompt == PromptOf(concept)
       IN  /\ last_google_api_call_time' = Float(start)
           /\ IF prompt.t = "raise"
              THEN /\ Escapes(prompt)
                   /\ now' = start
                   /\ UNCHANGED <<image, response, calls, call_started>>
              ELSE /\ \E resp \in ImageAnswers, d \in Durations :
                        /\ RemoteCall("image", start, TRUE, d)
                        /\ response' = resp
                        /\ image' = generate_image(resp)
                   /\ pc' = AfterImage(image')
                   /\ UNCHANGED raised
    /\ UNCHANGED <<run, sec, story_count, focus, stories, concept, locations, html, files,
                   cj_vars>>

\* lines 402-404: the image file of the section is written
SaveImage ==
    /\ pc = "save"
    /\ files' = [files EXCEPT ![ImagePath(ImageFilename(section.filename))] =
                    [t |-> "png", sec |-> sec, run |-> run]]
    /\ pc' = "vision"
    /\ UNCHANGED <<run, sec, story_count, focus, locals, raised, calls, call_started, now,
                   last_google_api_call_time, cj_vars>>

\* line 406: find_coordinates.  The cooldown comes first (line 177), then
\* the item list (lines 179-183), then the call.
FindCoordinates ==
    /\ pc = "vision"
    /\ LET start == CooldownEnd(now, last_google_api_call_time)
           items == ItemsToFind(concept)
       IN  /\ last_google_api_call_time' = Float(start)
           /\ IF items.t = "raise"
              THEN /\ Escapes(items)
                   /\ now' = start
                   /\ UNCHANGED <<locations, response, calls, call_started>>
              ELSE /\ \E resp \in VisionAnswers, d \in Durations :
                        /\ RemoteCall("vision", start, TRUE, d)
                        /\ response' = resp
                        /\ locations' = find_coordinates(resp)
                   /\ pc' = "html"
                   /\ UNCHANGED raised
    /\ UNCHANGED <<run, sec, story_count, focus, stories, concept, image, html, files,
                   cj_vars>>

\* line 407: generate_html builds the page, then writes it (lines 377-378)
GenerateHtml ==
    /\ pc = "html"
    /\ LET r == generate_html(section, stories.v, locations,
                              ImageFilename(section.filename))
       IN  IF r.t = "raise"
           THEN Escapes(r) /\ UNCHANGED <<html, files>>
           ELSE /\ html' = r.v
                /\ files' = [files EXCEPT ![PagePath(section.filename)] =
                                [t |-> "page", sec |-> sec, run |-> run]]
                /\ pc' = "next"
                /\ UNCHANGED raised
    /\ UNCHANGED <<run, sec, story_count, focus, stories, concept, image, locations,
                   response, calls, call_started, now,
                   last_google_api_call_time, cj_vars>>

\* line 384: the for loop takes the next section, or ends.  The locals of
\* the loop body are rebound before they are read again; the model clears
\* them here.
NextSection ==
    /\ pc = "next"
    /\ IF sec < Len(SECTIONS)
       THEN /\ sec' = sec + 1
            /\ pc' = "fetch"
            /\ stories' = Unset /\ concept' = Unset /\ image' = Unset
            /\ locations' = Unset /\ response' = Unset /\ html' = Unset
       ELSE /\ pc' = "done"
            /\ UNCHANGED <<sec, locals>>
    /\ UNCHANGED <<run, story_count, focus, raised, files, calls, call_started,
                   now, last_google_api_call_time, cj_vars>>

\* the module-level state when main() is entered (lines 29, 412)
InitMain ==
    /\ pc = "fetch"
    /\ run = 1
    /\ sec = 1
    /\ stories = Unset /\ concept = Unset /\ image = Unset
    /\ locations = Unset /\ response = Unset /\ html = Unset
    /\ raised = None
    /\ files = [p \in Paths |-> None]
    /\ calls = [i \in DOMAIN SECTIONS |-> <<>>]
    /\ call_started = None
    /\ now = 0
    /\ last_google_api_call_time = None

CleanIdle == cj_plain = None /\ cj_fenced = None /\ cj_out = None

Init ==
    /\ InitMain
    /\ story_count \in [DOMAIN SECTIONS -> 0..MaxCount]
    /\ focus \in Focuses
    /\ CleanIdle

Next ==
    \/ FetchStories
    \/ GenerateConcept
    \/ Join
    \/ GenerateImage
    \/ SaveImage
    \/ FindCoordinates
    \/ GenerateHtml
    \/ NextSection

Spec == Init /\ [][Next]_vars

-----------------------------------------------------------------------------
(* The program run again and again over one working directory               *)

\* the longest sequence of runs over one working directory
MaxRuns == 2

\* lines 411-412 in a new process, once the run before has ended, normally
\* or by an exception.  The module-level state is that of lines 24-30 again
\* and main() starts at its first section; the working directory is as the
\* run before left it.  Only differences of time.time() are read (lines
\* 44-48), so the clock is counted from the start of the process.  The
\* services answer this run independently of how they answered the last.
Restart ==
    /\ pc \in {"done", "raised"}
    /\ run < MaxRuns
    /\ run' = run + 1
    /\ pc' = "fetch"
    /\ sec' = 1
    /\ focus' \in Focuses
    /\ stories' = Unset /\ concept' = Unset /\ image' = Unset
    /\ locations' = Unset /\ response' = Unset /\ html' = Unset
    /\ raised' = None
    /\ calls' = [i \in DOMAIN SECTIONS |-> <<>>]
    /\ call_started' = None
    /\ now' = 0
    /\ last_google_api_call_time' = None
    /\ UNCHANGED <<story_count, files, cj_vars>>

NextRuns ==
    \/ Next
    \/ Restart

SpecRuns == Init /\ [][NextRuns]_vars

-----------------------------------------------------------------------------
(* generate_html on its own: any headline list with any coordinate list    *)
(* find_coordinates can return                                             *)

\* headline records as fetch_stories builds them, before and after the join
Headlines ==
    {PlaceholderStory(i) : i \in Ids}
        \cup {("mnemonic_explanation" :> Rationale(i)) @@ PlaceholderStory(i) : i \in Ids}

\* main() at line 407, about to call generate_html
InitHtml ==
    /\ pc = "html"
    /\ run = 1
    /\ sec = 1
    /\ story_count = [i \in DOMAIN SECTIONS |-> 0]
    /\ focus = "vision"
    /\ stories \in {List(ss) : ss \in SeqsUpTo(Headlines, MaxCount)}
    /\ locations \in {find_coordinates(r) : r \in VisionResponses}
    /\ concept = Unset /\ image = Unset /\ response = Unset /\ html = Unset
    /\ raised = None
    /\ files = [p \in Paths |-> None]
    /\ calls = [i \in DOMAIN SECTIONS |-> <<>>]
    /\ call_started = None
    /\ now = 0
    /\ last_google_api_call_time = None
    /\ CleanIdle

NextHtml == GenerateHtml

SpecHtml == InitHtml /\ [][NextHtml]_vars

-----------------------------------------------------------------------------
(* clean_json_text on its own                                              *)

QUOTE == "\""

\* json.loads, for the documents of the model: a JSON string, that is a
\* quote, characters that are no quote, and a quote
json_loads(text) ==
    IF /\ Len(text) >= 2
       /\ text[1] = QUOTE
       /\ text[Len(text)] = QUOTE
       /\ \A i \in 2..(Len(text) - 1) : text[i] # QUOTE
    THEN Ok(SubSeq(text, 2, Len(text) - 1))
    ELSE Raise("json.loads", "JSONDecodeError")

\* the longest string value, in pieces
MaxPieces == 2

\* what a string value is made of: a backquote, a fence, the word json, a
\* space, a letter
Pieces == {<<TICK>>, FENCE, <<"j", "s", "o", "n">>, <<" ">>, <<"x">>}

RECURSIVE Flatten(_)
Flatten(ps) == IF ps = <<>> THEN <<>> ELSE Head(ps) \o Flatten(Tail(ps))

\* the JSON documents: a string value in quotes
JsonDocuments == {<<QUOTE>> \o Flatten(ps) \o <<QUOTE>> : ps \in SeqsUpTo(Pieces, MaxPieces)}

\* a document in a fenced block, with or without a line break at each place
Blank == {<<>>, <<"\n">>}
Fenced(doc) ==
    {w1 \o open \o w2 \o doc \o w3 \o FENCE \o w4 :
        open \in {FENCE_JSON, FENCE}, w1 \in Blank, w2 \in Blank,
        w3 \in Blank, w4 \in Blank}

InitClean ==
    /\ InitMain
    /\ story_count = [i \in DOMAIN SECTIONS |-> 0]
    /\ focus = "text"
    /\ cj_plain \in JsonDocuments
    /\ cj_fenced \in Fenced(cj_plain)
    /\ cj_out = None

\* lines 141 and 204: clean_json_text applied to the response text
ApplyClean ==
    /\ cj_out = None
    /\ cj_out' = [plain |-> clean_json_text(cj_plain),
                  fenced |-> clean_json_text(cj_fenced)]
    /\ UNCHANGED <<main_vars, cj_plain, cj_fenced>>

NextClean == ApplyClean

SpecClean == InitClean /\ [][NextClean]_vars

-----------------------------------------------------------------------------
(* Claims                                                                  *)

Min(S) == CHOOSE x \in S : \A y \in S : x <= y

\* the feed response fetch_stories has just consumed, if it is the latest
AfterFeed == response # Unset /\ response.service = "feed"

\* the number of usable articles of a feed response, for a requested count:
\* the articles before the first one whose conversion raises, count at most
Usable(feed, count) ==
    IF feed.t = "raise" THEN 0
    ELSE IF "articles" \notin DOMAIN feed.v THEN 0
    ELSE IF feed.v.articles.t # "list" THEN 0
    ELSE LET raw == feed.v.articles.v
             good == {j \in 1..Len(raw) : \A i \in 1..j : ~ ArticleRaises(raw[i])}
         IN  IF Cardinality(good) < count THEN Cardinality(good) ELSE count

\* C1: whatever the feed does, fetch_stories returns exactly story_count
\* records with ids 1, 2, ..., story_count in list order, and the records
\* after the k usable articles are the placeholder records.
C1_FetchReturnsExactlyCount ==
    stories # Unset =>
        /\ Len(stories.v) = story_count[sec]
        /\ \A i \in 1..Len(stories.v) : stories.v[i].id = i
        /\ AfterFeed =>
            \A i \in 1..Len(stories.v) :
                i > Usable(response, story_count[sec]) =>
                    /\ stories.v[i].title = "More Content Coming Soon"
                    /\ stories.v[i].source = "System"
                    /\ stories.v[i].url = "#"

\* C1's case: two stories were asked for, the first article converted, the
\* second raised, and the second record is a placeholder
C1_Witness ==
    /\ AfterFeed
    /\ story_count[sec] = 2
    /\ response.t = "ok"
    /\ "articles" \in DOMAIN response.v
    /\ response.v.articles.t = "list"
    /\ Len(response.v.articles.v) >= 2
    /\ response.v.articles.v[1] = FullArticle
    /\ response.v.articles.v[2] = NullSourceArticle
    /\ Len(stories.v) = 2
    /\ stories.v[1].title = "Headline"
    /\ stories.v[2].source = "System"

\* C2: for a headline list of length N and a list of {id, x, y} coordinates,
\* generate_html writes a page, and every page it writes has exactly N
\* markers and N detail panels, the i-th of each carrying the id of the
\* i-th headline.
C2_OneMarkerAndPanelPerHeadline ==
    pc # "html" =>
        /\ (IsLocationList(locations) => html # Unset)
        /\ html # Unset =>
            /\ Len(html.markers) = Len(stories.v)
            /\ Len(html.cards) = Len(stories.v)
            /\ \A i \in 1..Len(stories.v) :
                /\ html.markers[i].id = stories.v[i].id
                /\ html.cards[i].id = stories.v[i].id
            /\ {html.markers[i].id : i \in DOMAIN html.markers}
                 = {html.cards[i].id : i \in DOMAIN html.cards}

\* C2's case: a page for two headlines, one with a coordinate and one
\* without
C2_Witness ==
    /\ html # Unset
    /\ Len(stories.v) = 2
    /\ Len(html.markers) = 2
    /\ html.markers[1].top # DefaultLocation.y
    /\ html.markers[2].top = DefaultLocation.y
    /\ html.markers[2].left = DefaultLocation.x

\* the entries of the coordinate list that carry the id
LocationMatches(id) ==
    {j \in DOMAIN locations.v :
        "id" \in DOMAIN locations.v[j] /\ locations.v[j].id = id}

\* C3: for every coordinate list find_coordinates can return, generate_html
\* never raises, and a headline with no matching entry gets a marker at
\* top 50% / left 50%, one with a matching entry that entry's x and y.
C3_HtmlNeverRaises ==
    /\ pc = "raised" => raised.in # "generate_html"
    /\ html # Unset =>
        \A i \in DOMAIN html.markers :
            LET m == html.markers[i]
                hits == LocationMatches(m.id)
            IN  IF hits = {}
                THEN m.top = 50 /\ m.left = 50
                ELSE /\ m.top = locations.v[Min(hits)].y
                     /\ m.left = locations.v[Min(hits)].x

\* the ids that occur among the concept's story_elements
ElementIds(c) ==
    IF c.t = "dict" /\ "story_elements" \in DOMAIN c.v /\ c.v.story_elements.t = "list"
    THEN {c.v.story_elements.v[j].id :
            j \in {k \in DOMAIN c.v.story_elements.v :
                    "id" \in DOMAIN c.v.story_elements.v[k]}}
    ELSE {}

ElementMatches(c, id) ==
    {j \in DOMAIN c.v.story_elements.v :
        /\ "id" \in DOMAIN c.v.story_elements.v[j]
        /\ c.v.story_elements.v[j].id = id}

\* C4: with a headline whose id does not occur among the concept's
\* story_elements, the join raises nothing; the panel of such a headline
\* shows 'Visual mnemonic for this story.', and the panel of a headline
\* whose id occurs shows the rationale of the matching element.
C4_JoinFallsBackToPlaceholder ==
    /\ (pc = "raised" /\ raised.in = "join") =>
            \A i \in DOMAIN stories.v : stories.v[i].id \in ElementIds(concept)
    /\ (html # Unset /\ concept # Unset) =>
        \A i \in DOMAIN html.cards :
            LET card == html.cards[i]
                hits == ElementMatches(concept, card.id)
            IN  IF hits = {}
                THEN card.hook = PlaceholderRationale
                ELSE LET e == concept.v.story_elements.v[Min(hits)]
                     IN  "mnemonic_explanation" \in DOMAIN e =>
                            card.hook = e.mnemonic_explanation

\* C5: generate_memory_palace_concept returns None unless the response
\* parses to an object of the documented shape (setting_description,
\* story_elements a list, every element with id, visual_cue, assigned_zone).
C5_ConceptIsValidatedOrNone ==
    concept # Unset => (concept = None \/ IsConcept(concept))

\* the page of the current section has been written
PageWritten == files[PagePath(section.filename)] # None

\* C6: when the concept stage or the image stage of a section fails (an
\* exception, no data, data lacking a required field), no later stage of the
\* section is invoked or about to be, no page is written for it, and no
\* exception escapes main.
C6_FailedStageSkipsSection ==
    /\ (concept # Unset /\ ~ IsConcept(concept)) =>
        /\ pc \notin {"raised", "image", "save", "vision", "html"}
        /\ calls[sec] = <<"feed", "text">>
        /\ ~ PageWritten
    /\ (image # Unset /\ image = None) =>
        /\ pc \notin {"raised", "save", "vision", "html"}
        /\ calls[sec] = <<"feed", "text", "image">>
        /\ ~ PageWritten

\* the vision response did not parse, or is not an object with a
\* 'locations' list of {id, x, y} objects
VisionFormatFailure(resp) ==
    \/ resp.t = "badjson"
    \/ /\ resp.t = "json"
       /\ ~ (/\ resp.v.t = "dict"
             /\ "locations" \in DOMAIN resp.v.v
             /\ IsLocationList(resp.v.v.locations))

\* C7: on a parse or format failure of the vision stage find_coordinates
\* yields the empty list, the section is not aborted, and the page is
\* written with every marker at the default position.
C7_VisionFailureYieldsEmptyList ==
    (response # Unset /\ response.service = "vision" /\ VisionFormatFailure(response)) =>
        /\ locations = List(<<>>)
        /\ pc # "raised"
        /\ pc # "html" =>
            /\ html # Unset
            /\ \A i \in DOMAIN html.markers :
                html.markers[i].top = 50 /\ html.markers[i].left = 50

\* C8: clean_json_text of a JSON document wrapped in a fenced block is
\* clean_json_text of the document itself, and both parse to the same
\* object, also when a string value of the document holds the fence marker.
C8_FencedCleansLikePlain ==
    cj_out # None =>
        /\ cj_out.fenced = cj_out.plain
        /\ json_loads(cj_out.fenced) = json_loads(cj_out.plain)

\* a remote call is made in this step
CallMade == calls' # calls

\* C9 as written: wait_for_api_cooldown runs before every remote call, the
\* feed call included, and two successive remote calls start at least
\* API_CALL_DELAY_SECONDS apart.
C9_EveryRemoteCallCooled ==
    [][CallMade =>
        /\ call_started'.cooled
        /\ call_started # None =>
            call_started'.at - call_started.at >= API_CALL_DELAY_SECONDS]_vars

\* the stages that call a Google model, hence wait_for_api_cooldown
ModelStages == {"concept", "image", "vision"}

\* C9, amended: wait_for_api_cooldown runs before every call of the text,
\* image and vision model and not before the feed call; a model call starts
\* at the time the cooldown records, and two successive recorded times are
\* at least API_CALL_DELAY_SECONDS apart, whatever the calls last and across
\* sections.
C9_ModelCallsSpaced ==
    [][/\ CallMade =>
            /\ call_started'.cooled <=> call_started'.service # "feed"
            /\ call_started'.cooled =>
                last_google_api_call_time' = Float(call_started'.at)
       /\ (pc \in ModelStages /\ last_google_api_call_time # None) =>
            last_google_api_call_time'.v - last_google_api_call_time.v
                >= API_CALL_DELAY_SECONDS]_vars

\* C9's case: the text call of the second section had to wait, because the
\* latest model call of the first section started less than two seconds
\* before
C9_Witness ==
    /\ call_started # None
    /\ call_started.service = "text"
    /\ call_started.sec = 2
    /\ call_started.cooled
    /\ call_started.slept > 0

\* the order of the stages in the loop body, lines 387-406
ServiceOrder == <<"feed", "text", "image", "vision">>

IsPrefix(a, b) == Len(a) <= Len(b) /\ a = SubSeq(b, 1, Len(a))

\* C10: in every section the remote calls made are a prefix of feed, text,
\* image, vision: each service at most once, in that order, and none a
\* second time after a failure.
C10_EachServiceOncePerSection ==
    \A i \in DOMAIN SECTIONS : IsPrefix(calls[i], ServiceOrder)

\* C10's case: the text stage of the first section failed and the image
\* stage of the second did; main ended with neither call made again
C10_Witness ==
    /\ pc = "done"
    /\ calls[1] = <<"feed", "text">>
    /\ calls[2] = <<"feed", "text", "image">>

-----------------------------------------------------------------------------
(* C11                                                                     *)

\* a run has ended: main() returned, or an exception left it
RunEnded == pc \in {"done", "raised"}

\* the page and the image of section i, as they are on disk
PageOnDisk(i) == files[PagePath(SECTIONS[i].filename)]
ImageOnDisk(i) == files[ImagePath(ImageFilename(SECTIONS[i].filename))]

\* C11: after every run of a sequence of runs over one working directory,
\* however the run ends, a section's page on disk and its image on disk
\* were written by the same run: no page is left lying beside the image of
\* a later run.
C11_PageAndImageFromSameRun ==
    RunEnded =>
        \A i \in DOMAIN SECTIONS :
            (PageOnDisk(i) # None /\ ImageOnDisk(i) # None)
                => PageOnDisk(i).run = ImageOnDisk(i).run

====
